---------------------------- MODULE Spec2Model ----------------------------
(***************************************************************************)
(* The Hanan graph of OpenRAM's rectilinear router                         *)
(* (compiler/router/hanan_graph.py): graph construction from a source pin, *)
(* a target pin and the blockages of the routing region, and the A*        *)
(* search over it.                                                         *)
(*                                                                         *)
(* Coordinates are integers.  Pin corners are even, so the centre of a pin *)
(* ((ll + ur) / 2 in the code) is an integer as well.                      *)
(*                                                                         *)
(* A node object is its id; center and neighbors hold the fields of every  *)
(* node object ever created (entry id + 1 belongs to node id).  Nodes that *)
(* left self.nodes stay there: other lists may still refer to them.        *)
(***************************************************************************)
EXTENDS Integers, Sequences, FiniteSets, TLC

VARIABLES
    router,          \* self.router: [blockages, pins], the read-only catalog
    source,          \* self.source
    target,          \* self.target
    graph_blockages, \* self.graph_blockages
    nodes,           \* self.nodes: sequence of node ids
    source_nodes,    \* self.source_nodes: sequence of node ids
    target_nodes,    \* self.target_nodes: sequence of node ids
    center,          \* hanan_node.center of every node object
    neighbors,       \* hanan_node.neighbors of every node object
    status,          \* outcome of the last create_graph: "new", "built", "raised"
    calls,           \* number of create_graph calls made on this object
    pc,              \* find_shortest_path: "idle", "search", "found", "none"
    queue,           \* the heap: set of entries [f, id, seq]
    close_set,       \* close_set
    came_from,       \* came_from: node id -> node id
    g_scores,        \* g_scores: node id -> accumulated cost
    pushes,          \* number of heappush calls made by this search
    popped,          \* the entry the last heappop returned
    path             \* the returned list of nodes (<<>> when None)

graphVars == <<router, source, target, graph_blockages, nodes, source_nodes,
               target_nodes, center, neighbors, status, calls>>
searchVars == <<pc, queue, close_set, came_from, g_scores, pushes, popped, path>>
vars == <<router, source, target, graph_blockages, nodes, source_nodes,
          target_nodes, center, neighbors, status, calls,
          pc, queue, close_set, came_from, g_scores, pushes, popped, path>>

-----------------------------------------------------------------------------
(* Bounds and technology constants *)

\* create_graph calls made on one hanan_graph object
MaxCalls == 2

\* drc["grid"]: the offset added around blockage corners
Grid == 1

\* router.layer_widths[0] / 2: the spacing other nets' pins are inflated by
HalfWidth == 1

\* the routing pitch the region of interest is inflated by
Pitch == 2

\* cost of the via edge between the two layers of one (x, y)
ViaCost == 2

-----------------------------------------------------------------------------
(* Sequences *)

InSeq(e, s) == \E i \in 1..Len(s) : s[i] = e

RemoveAll(s, e) == SelectSeq(s, LAMBDA v : v # e)

\* list.remove(e): drop the first element equal to e
RemoveFirst(s, e) ==
    LET i == CHOOSE j \in 1..Len(s) : s[j] = e /\ \A k \in 1..(j - 1) : s[k] # e
    IN  SubSeq(s, 1, i - 1) \o SubSeq(s, i + 1, Len(s))

SetMin(S) == CHOOSE v \in S : \A w \in S : v <= w

RECURSIVE SortedSeq(_)
\* list(S) followed by sort()
SortedSeq(S) ==
    IF S = {} THEN <<>>
    ELSE LET m == SetMin(S) IN <<m>> \o SortedSeq(S \ {m})

Abs(v) == IF v < 0 THEN -v ELSE v

-----------------------------------------------------------------------------
(* Shapes: [name, llx, lly, urx, ury, z], z the routing layer of the lpp *)

Rect(n, x1, y1, x2, y2, l) ==
    [name |-> n, llx |-> x1, lly |-> y1, urx |-> x2, ury |-> y2, z |-> l]

NoShape == Rect("", 0, 0, 0, 0, 0)

width(s) == s.urx - s.llx
height(s) == s.ury - s.lly

\* pin_layout.center / uc / bc / lc / rc
cx(s) == (s.llx + s.urx) \div 2
cy(s) == (s.lly + s.ury) \div 2

\* inclusive containment of (x, y) in the rectangle ll-ur
on_segment(s, x, y) ==
    /\ s.llx <= x /\ x <= s.urx
    /\ s.lly <= y /\ y <= s.ury

\* closed rectangles a and b intersect
RectOverlap(a, b) ==
    /\ a.llx <= b.urx /\ b.llx <= a.urx
    /\ a.lly <= b.ury /\ b.lly <= a.ury

\* pin_layout.overlaps: same layer and intersecting rectangles
overlaps(a, b) == a.z = b.z /\ RectOverlap(a, b)

\* pin_layout.inflated_pin: grow by spacing on every side
inflated_pin(s, spacing) ==
    [s EXCEPT !.llx = @ - spacing, !.lly = @ - spacing,
              !.urx = @ + spacing, !.ury = @ + spacing]

\* region = deepcopy(source); region.bbox([target])
bbox(a, b) ==
    [a EXCEPT !.llx = IF b.llx < @ THEN b.llx ELSE @,
              !.lly = IF b.lly < @ THEN b.lly ELSE @,
              !.urx = IF b.urx > @ THEN b.urx ELSE @,
              !.ury = IF b.ury > @ THEN b.ury ELSE @]

\* hanan_probe(p1, p2, lpp): the segment p1-p2 on the layer of p1
hanan_probe(p1, p2) ==
    Rect("probe",
         IF p1[1] < p2[1] THEN p1[1] ELSE p2[1],
         IF p1[2] < p2[2] THEN p1[2] ELSE p2[2],
         IF p1[1] < p2[1] THEN p2[1] ELSE p1[1],
         IF p1[2] < p2[2] THEN p2[2] ELSE p1[2],
         p1[3])

-----------------------------------------------------------------------------
(* hanan_graph: construction *)

inside_shape(point, shape) ==
    IF point[3] # shape.z THEN FALSE
    ELSE on_segment(shape, point[1], point[2])

is_probe_blocked(blockages, p1, p2) ==
    \E blockage \in blockages : overlaps(blockage, hanan_probe(p1, p2))

get_blockages(r, pin_name) ==
    r.blockages \cup
    { inflated_pin(pin, HalfWidth) : pin \in { p \in r.pins : p.name # pin_name } }

\* the routing region of create_graph
Region(s, t) == inflated_pin(bbox(s, t), Pitch)

\* the blockages create_graph keeps: region.lpp is set to the blockage's lpp
\* before the overlap test, so only the rectangles decide
CollectBlockages(r, s, t) ==
    { blockage \in get_blockages(r, s.name) : RectOverlap(Region(s, t), blockage) }

\* shape.width() / shape.height() raises ZeroDivisionError
DivisionByZero(s, t) == height(s) = 0 \/ height(t) = 0

\* the points a pin contributes
PinPoints(shape) ==
    IF 2 * width(shape) <= height(shape)
    THEN {<<cx(shape), shape.ury>>, <<cx(shape), shape.lly>>}
    ELSE IF width(shape) >= 2 * height(shape)
         THEN {<<shape.llx, cy(shape)>>, <<shape.urx, cy(shape)>>}
         ELSE {<<cx(shape), cy(shape)>>}

XValues(s, t, blockages) ==
    { p[1] : p \in PinPoints(s) \cup PinPoints(t) }
    \cup { b.llx - Grid : b \in blockages } \cup { b.urx + Grid : b \in blockages }

\* mutant of YValues: the corners of the blockages add no y value
YValues_pins_only(s, t, blockages) ==
    { p[2] : p \in PinPoints(s) \cup PinPoints(t) }

YValues(s, t, blockages) ==
    { p[2] : p \in PinPoints(s) \cup PinPoints(t) }
    \cup { b.lly - Grid : b \in blockages } \cup { b.ury + Grid : b \in blockages }

generate_cartesian_values(s, t, blockages) ==
    <<SortedSeq(XValues(s, t, blockages)), SortedSeq(YValues(s, t, blockages))>>

\* hanan_node.add_neighbor
add_neighbor(nb, a, b) ==
    IF InSeq(b, nb[a + 1]) THEN nb
    ELSE [nb EXCEPT ![a + 1] = Append(@, b), ![b + 1] = Append(@, a)]

\* hanan_node.remove_all_neighbors
remove_all_neighbors(nb, a) ==
    [i \in DOMAIN nb |-> IF i = a + 1 THEN <<>> ELSE RemoveAll(nb[i], a)]

\* self.nodes[i] for a negative Python index i
NodeAt(ns, i) == ns[Len(ns) + i + 1]

RECURSIVE Connect(_, _, _, _, _)
\* the loops "for i in belows" / "for i in aboves" of generate_hanan_nodes
Connect(g, blockages, new, idxs, k) ==
    IF k > Len(idxs) THEN g.neighbors
    ELSE LET node == NodeAt(g.nodes, idxs[k])
             nb == IF is_probe_blocked(blockages, g.center[new + 1], g.center[node + 1])
                   THEN g.neighbors
                   ELSE add_neighbor(g.neighbors, new, node)
         IN  Connect([g EXCEPT !.neighbors = nb], blockages, new, idxs, k + 1)

\* source/target classification of one new node
Classify(g, s, t, node) ==
    IF inside_shape(g.center[node + 1], s)
    THEN [g EXCEPT !.source_nodes = Append(@, node)]
    ELSE IF inside_shape(g.center[node + 1], t)
         THEN [g EXCEPT !.target_nodes = Append(@, node)]
         ELSE g

\* one iteration of the inner loop of generate_hanan_nodes
GeneratePair(g, s, t, blockages, x, y, y_len) ==
    LET below_node == Len(g.center)
        above_node == below_node + 1
        left_offset == -(y_len * 2)
        g1 == [g EXCEPT !.center = @ \o << <<x, y, 0>>, <<x, y, 1>> >>,
                        !.neighbors = @ \o << <<>>, <<>> >>]
        g2 == [g1 EXCEPT !.neighbors = add_neighbor(@, below_node, above_node)]
        count == Len(g.nodes) \div 2
        down == count % y_len # 0
        left == count >= y_len
        belows == (IF down THEN <<-2>> ELSE <<>>) \o (IF left THEN <<left_offset>> ELSE <<>>)
        aboves == (IF down THEN <<-1>> ELSE <<>>) \o (IF left THEN <<left_offset + 1>> ELSE <<>>)
        g3 == [g2 EXCEPT !.neighbors = Connect(g2, blockages, below_node, belows, 1)]
        g4 == [g3 EXCEPT !.neighbors = Connect(g3, blockages, above_node, aboves, 1)]
        g5 == Classify(Classify(g4, s, t, below_node), s, t, above_node)
    IN  [g5 EXCEPT !.nodes = @ \o <<below_node, above_node>>]

RECURSIVE GenerateFrom(_, _, _, _, _, _)
\* the two nested loops, "for x in x_values: for y in y_values"; the pair being
\* generated is number len(self.nodes) // 2
GenerateFrom(g, s, t, blockages, x_values, y_values) ==
    LET count == Len(g.nodes) \div 2
    IN  IF count >= Len(x_values) * Len(y_values) THEN g
        ELSE GenerateFrom(
                GeneratePair(g, s, t, blockages,
                             x_values[(count \div Len(y_values)) + 1],
                             y_values[(count % Len(y_values)) + 1],
                             Len(y_values)),
                s, t, blockages, x_values, y_values)

\* g: [center, neighbors, nodes, source_nodes, target_nodes]
generate_hanan_nodes(g, s, t, blockages, x_values, y_values) ==
    GenerateFrom([g EXCEPT !.nodes = <<>>], s, t, blockages, x_values, y_values)

\* mutant of RemoveNode: only the removed node's own list is cleared
RemoveNode_one_sided(g, node) ==
    [g EXCEPT !.neighbors = [@ EXCEPT ![node + 1] = <<>>],
              !.nodes = RemoveFirst(@, node)]

\* mutant of RemoveNode: the node is disconnected but stays in self.nodes
RemoveNode_stays_listed(g, node) ==
    [g EXCEPT !.neighbors = remove_all_neighbors(@, node)]

\* the body of the loop of remove_blocked_nodes for one node
RemoveNode(g, node) ==
    [g EXCEPT !.neighbors = remove_all_neighbors(@, node),
              !.nodes = RemoveFirst(@, node)]

\* "for blockage in self.graph_blockages: if self.inside_shape(point, blockage)"
InsideBlockage(g, blockages, i) ==
    \E blockage \in blockages : inside_shape(g.center[g.nodes[i] + 1], blockage)

RECURSIVE RemoveFrom(_, _, _)
\* "for i in range(len(self.nodes) - 1, -1, -1)", i counted from 1
RemoveFrom(g, blockages, i) ==
    IF i < 1 THEN g
    ELSE IF InsideBlockage(g, blockages, i)
         THEN RemoveFrom(RemoveNode(g, g.nodes[i]), blockages, i - 1)
         ELSE RemoveFrom(g, blockages, i - 1)

remove_blocked_nodes(g, blockages) == RemoveFrom(g, blockages, Len(g.nodes))

\* the graph fields create_graph leaves behind when it returns
BuiltGraph(g, s, t, blockages) ==
    LET xy == generate_cartesian_values(s, t, blockages)
    IN  remove_blocked_nodes(
            generate_hanan_nodes(g, s, t, blockages, xy[1], xy[2]), blockages)

-----------------------------------------------------------------------------
(* hanan_graph: search *)

(* A score n + sqrt(r) is the pair <<n, r>> of naturals, so that planar     *)
(* distances are compared exactly (the code compares the floats); Inf is    *)
(* float("inf").                                                            *)
Inf == <<-1, 0>>
IsInf(a) == a[1] < 0

\* n1 + sqrt(r1) < n2 + sqrt(r2)
FiniteLess(a, b) ==
    LET k == b[1] - a[1]
        m == a[2] - b[2] - k * k
        w == b[2] - a[2] - k * k
    IN  IF k >= 0
        THEN m < 0 \/ m * m < 4 * k * k * b[2]
        ELSE w > 0 /\ 4 * k * k * a[2] < w * w

Less(a, b) ==
    IF IsInf(a) THEN FALSE
    ELSE IF IsInf(b) THEN TRUE
    ELSE FiniteLess(a, b)

Same(a, b) == ~Less(a, b) /\ ~Less(b, a)

\* g + a, g an accumulated cost
Plus(g, a) == IF IsInf(a) THEN Inf ELSE <<g + a[1], a[2]>>

\* t.center.distance(node.center) + abs(t.center.z - node.center.z)
TargetDist(c, t, node) ==
    LET dx == c[t + 1][1] - c[node + 1][1]
        dy == c[t + 1][2] - c[node + 1][2]
    IN  <<Abs(c[t + 1][3] - c[node + 1][3]), dx * dx + dy * dy>>

RECURSIVE MinDist(_, _, _, _, _)
MinDist(c, targets, node, k, min_dist) ==
    IF k > Len(targets) THEN min_dist
    ELSE LET dist == TargetDist(c, targets[k], node)
         IN  MinDist(c, targets, node, k + 1,
                     IF Less(dist, min_dist) THEN dist ELSE min_dist)

\* mutant of h: the estimate counts every distance three times
h_overestimates(c, targets, node) ==
    LET d == MinDist(c, targets, node, 1, Inf)
    IN  IF IsInf(d) THEN d ELSE <<3 * d[1], 9 * d[2]>>

\* the heuristic: the estimated distance to the closest target
h(c, targets, node) == MinDist(c, targets, node, 1, Inf)

\* hanan_node.get_edge_cost for two neighbors: the length of the run on one
\* layer, the via penalty between the layers
get_edge_cost(c, a, b) ==
    Abs(c[a + 1][1] - c[b + 1][1]) + Abs(c[a + 1][2] - c[b + 1][2])
    + ViaCost * Abs(c[a + 1][3] - c[b + 1][3])

\* dict[k] = v
Put(d, k, v) == [x \in (DOMAIN d) \cup {k} |-> IF x = k THEN v ELSE d[x]]

NoEntry == [f |-> Inf, id |-> -1, seq |-> -1]

\* the order of the heap's tuples (f_score, node.id, node)
EntryLess(a, b) == Less(a.f, b.f) \/ (Same(a.f, b.f) /\ a.id < b.id)

\* mutant of Pop: equal f scores are popped in the order of their pushes
Pop_push_order(q) ==
    CHOOSE e \in q : \A o \in q :
        /\ ~Less(o.f, e.f)
        /\ (Same(o.f, e.f) => e.seq <= o.seq)

\* heapq.heappop: a least tuple of the heap
Pop(q) ==
    CHOOSE e \in q : \A o \in q :
        /\ ~EntryLess(o, e)
        /\ (~EntryLess(e, o) => e.seq <= o.seq)

\* s: [queue, came_from, g_scores, pushes]
Push(s, node, g, hv) ==
    [s EXCEPT !.g_scores = Put(@, node, g),
              !.queue = @ \cup {[f |-> Plus(g, hv), id |-> node, seq |-> s.pushes]},
              !.pushes = @ + 1]

RECURSIVE Seed(_, _, _, _)
\* "for node in self.source_nodes" before the loop
Seed(s, c, targets, srcs) ==
    IF srcs = <<>> THEN s
    ELSE Seed(Push(s, Head(srcs), 0, h(c, targets, Head(srcs))), c, targets, Tail(srcs))

\* mutant of Improves: a node that has a score already is never updated
Improves_new_only(s, node, tentative_score) == node \notin DOMAIN s.g_scores

\* "node.id not in g_scores or tentative_score < g_scores[node.id]"
Improves(s, node, tentative_score) ==
    node \notin DOMAIN s.g_scores \/ tentative_score < s.g_scores[node]

RECURSIVE Expand(_, _, _, _, _, _)
\* "for node in current.neighbors"
Expand(s, c, targets, current, nbs, k) ==
    IF k > Len(nbs) THEN s
    ELSE LET node == nbs[k]
             tentative_score == get_edge_cost(c, current, node) + s.g_scores[current]
         IN  IF Improves(s, node, tentative_score)
             THEN Expand(Push([s EXCEPT !.came_from = Put(@, node, current)],
                              node, tentative_score, h(c, targets, node)),
                         c, targets, current, nbs, k + 1)
             ELSE Expand(s, c, targets, current, nbs, k + 1)

RECURSIVE Walk(_, _)
\* the predecessor walk that builds the returned list
Walk(cf, current) ==
    IF current \in DOMAIN cf THEN <<current>> \o Walk(cf, cf[current])
    ELSE <<current>>

\* mutant of IsTarget: the popped node is looked up in the source nodes
IsTarget_in_sources(targets, current) == InSeq(current, source_nodes)

\* "current in self.target_nodes"
IsTarget(targets, current) == InSeq(current, targets)

-----------------------------------------------------------------------------
(* Inputs *)

\* square pins of the routed net "a" on layer 0
PinA == Rect("a", 0, 0, 2, 2, 0)
PinB == Rect("a", 20, 0, 22, 2, 0)
\* a fat pin (width / height = 2) on layer 1
PinF == Rect("a", 20, 0, 24, 2, 1)
\* degenerate pins: zero height, zero width (a tall pin: width / height = 0)
PinZ == Rect("a", 0, 0, 2, 0, 0)
PinW == Rect("a", 0, 0, 0, 2, 0)
\* a pin whose centre lies inside PinC
PinC == Rect("a", 0, 0, 4, 4, 0)
PinD == Rect("a", 2, 2, 4, 4, 0)
\* a pin of another net
PinO == Rect("o", 10, 0, 12, 2, 0)

\* the (source, target) pairs create_graph is called with
Requests ==
    { <<PinA, PinB>>, <<PinB, PinA>>, <<PinC, PinD>>, <<PinW, PinF>>, <<PinZ, PinB>> }

\* a wall between PinA and PinB
Wall(l) == Rect("blk", 8, -10, 12, 10, l)

\* a closed ring of four bars around PinB
Ring(l) ==
    { Rect("blk", 17, -2, 18, 4, l), Rect("blk", 23, -2, 24, 4, l),
      Rect("blk", 17, 3, 24, 4, l), Rect("blk", 17, -2, 24, -1, l) }

\* a blockage that covers PinB
Cover(l) == Rect("blk", 18, -2, 24, 4, l)

\* the catalogs of the router
Routers ==
    { [blockages |-> {}, pins |-> {PinA, PinB, PinO}],
      [blockages |-> {Wall(0)}, pins |-> {PinA, PinB}],
      [blockages |-> {Wall(0), Wall(1)}, pins |-> {PinA, PinB}],
      [blockages |-> Ring(0) \cup Ring(1), pins |-> {PinA, PinB}],
      [blockages |-> {Cover(0)}, pins |-> {PinA, PinB}] }

-----------------------------------------------------------------------------
(* Behaviour *)

Init ==
    /\ router \in Routers
    /\ source = NoShape
    /\ target = NoShape
    /\ graph_blockages = {}
    /\ nodes = <<>>
    /\ source_nodes = <<>>
    /\ target_nodes = <<>>
    /\ center = <<>>
    /\ neighbors = <<>>
    /\ status = "new"
    /\ calls = 0
    /\ pc = "idle"
    /\ queue = {}
    /\ close_set = {}
    /\ came_from = <<>>
    /\ g_scores = <<>>
    /\ pushes = 0
    /\ popped = NoEntry
    /\ path = <<>>

\* create_graph(source, target); a zero height raises ZeroDivisionError in
\* generate_cartesian_values, after source, target and graph_blockages were
\* assigned.  The result of an earlier search is dropped by the caller.
create_graph(s, t) ==
    /\ pc # "search"
    /\ calls < MaxCalls
    /\ calls' = calls + 1
    /\ source' = s
    /\ target' = t
    /\ graph_blockages' = CollectBlockages(router, s, t)
    /\ IF DivisionByZero(s, t)
       THEN /\ status' = "raised"
            /\ UNCHANGED <<nodes, source_nodes, target_nodes, center, neighbors>>
       ELSE LET g == BuiltGraph([center |-> center, neighbors |-> neighbors,
                                 nodes |-> nodes, source_nodes |-> source_nodes,
                                 target_nodes |-> target_nodes],
                                s, t, graph_blockages')
            IN  /\ status' = "built"
                /\ nodes' = g.nodes
                /\ source_nodes' = g.source_nodes
                /\ target_nodes' = g.target_nodes
                /\ center' = g.center
                /\ neighbors' = g.neighbors
    /\ pc' = "idle"
    /\ path' = <<>>
    /\ UNCHANGED <<router, queue, close_set, came_from, g_scores, pushes, popped>>

\* find_shortest_path up to the loop
SearchStart ==
    /\ pc # "search"
    /\ LET s == Seed([queue |-> {}, came_from |-> <<>>, g_scores |-> <<>>, pushes |-> 0],
                     center, target_nodes, source_nodes)
       IN  /\ queue' = s.queue
           /\ came_from' = s.came_from
           /\ g_scores' = s.g_scores
           /\ pushes' = s.pushes
    /\ close_set' = {}
    /\ popped' = NoEntry
    /\ path' = <<>>
    /\ pc' = "search"
    /\ UNCHANGED graphVars

\* one iteration of "while len(queue) > 0"
SearchStep ==
    /\ pc = "search"
    /\ queue # {}
    /\ LET e == Pop(queue)
           current == e.id
       IN  /\ popped' = e
           /\ IF current \in close_set
              THEN /\ queue' = queue \ {e}
                   /\ UNCHANGED <<pc, close_set, came_from, g_scores, pushes, path>>
              ELSE IF IsTarget(target_nodes, current)
              THEN /\ path' = Walk(came_from, current)
                   /\ pc' = "found"
                   /\ queue' = {}
                   /\ close_set' = {}
                   /\ came_from' = <<>>
                   /\ g_scores' = <<>>
                   /\ UNCHANGED pushes
              ELSE LET s == Expand([queue |-> queue \ {e}, came_from |-> came_from,
                                    g_scores |-> g_scores, pushes |-> pushes],
                                   center, target_nodes, current,
                                   neighbors[current + 1], 1)
                   IN  /\ queue' = s.queue
                       /\ came_from' = s.came_from
                       /\ g_scores' = s.g_scores
                       /\ pushes' = s.pushes
                       /\ close_set' = close_set \cup {current}
                       /\ UNCHANGED <<pc, path>>
    /\ UNCHANGED graphVars

\* the queue is empty: return None
SearchFail ==
    /\ pc = "search"
    /\ queue = {}
    /\ pc' = "none"
    /\ path' = <<>>
    /\ close_set' = {}
    /\ came_from' = <<>>
    /\ g_scores' = <<>>
    /\ UNCHANGED <<queue, pushes, popped>>
    /\ UNCHANGED graphVars

Next ==
    \/ \E r \in Requests : create_graph(r[1], r[2])
    \/ SearchStart
    \/ SearchStep
    \/ SearchFail

Spec == Init /\ [][Next]_vars

-----------------------------------------------------------------------------
(* Definitions the properties are stated with *)

\* the search has returned
Returned == pc \in {"found", "none"}

\* the ids of the nodes the last create_graph call created
LastCallIds ==
    LET xy == generate_cartesian_values(source, target, graph_blockages)
        n == 2 * Len(xy[1]) * Len(xy[2])
    IN  (Len(center) - n)..(Len(center) - 1)

Listed(ns) == { ns[i] : i \in 1..Len(ns) }

\* b is in the neighbor list of a
Edge(a, b) == InSeq(b, neighbors[a + 1])

\* one round of relaxation of the least costs d from the source nodes
\* (entry id + 1 for node id, -1 for a node not reached yet)
RelaxRound(d) ==
    [v \in DOMAIN d |->
        LET via == { d[u] + get_edge_cost(center, u - 1, v - 1) :
                        u \in { w \in DOMAIN d : d[w] >= 0 /\ Edge(w - 1, v - 1) } }
            all == via \cup (IF d[v] >= 0 THEN {d[v]} ELSE {})
        IN  IF all = {} THEN -1 ELSE SetMin(all)]

RECURSIVE Relaxed(_)
Relaxed(d) ==
    LET n == RelaxRound(d)
    IN  IF n = d THEN d ELSE Relaxed(n)

\* least cost of a neighbor-edge path from the source nodes to each node
LeastCost ==
    Relaxed([v \in DOMAIN center |-> IF InSeq(v - 1, source_nodes) THEN 0 ELSE -1])

\* least cost from any source node to any target node, -1 when there is none
MinCost ==
    LET d == LeastCost
        reached == { d[t + 1] : t \in Listed(target_nodes) } \ {-1}
    IN  IF reached = {} THEN -1 ELSE SetMin(reached)

RECURSIVE CostFrom(_, _)
\* the cost of the edges of p from position i on, p walked from its last node
CostFrom(p, i) ==
    IF i >= Len(p) THEN 0
    ELSE get_edge_cost(center, p[i + 1], p[i]) + CostFrom(p, i + 1)

PathCost(p) == CostFrom(p, 1)

-----------------------------------------------------------------------------
(* Properties *)

\* p, walked from its last node to its first, follows neighbor edges
FollowsEdges(p) == \A i \in 1..(Len(p) - 1) : Edge(p[i + 1], p[i])

\* C1: whenever find_shortest_path returns a path, the path follows neighbor
\* edges and the sum of its edge costs is the least cost of any neighbor-edge
\* path from a node of source_nodes to a node of target_nodes.
C1_PathCostIsMinimum ==
    pc = "found" => FollowsEdges(path) /\ PathCost(path) = MinCost

\* C1 witness: a path was returned that had to leave the layer of both pins
\* because blockages were in the way.
C1_Witness ==
    /\ pc = "found"
    /\ graph_blockages # {}
    /\ Len(path) >= 4
    /\ source.z = target.z
    /\ \E i \in 1..Len(path) : center[path[i] + 1][3] # source.z

\* C2: whenever find_shortest_path returns a path, its first element is a node
\* of source_nodes, its last element is a node of target_nodes, and consecutive
\* elements are neighbors.
C2_PathRunsSourceToTarget ==
    pc = "found" =>
        /\ InSeq(path[1], source_nodes)
        /\ InSeq(path[Len(path)], target_nodes)
        /\ \A i \in 1..(Len(path) - 1) : Edge(path[i], path[i + 1])

\* every queued node has an accumulated cost, so g_scores[current.id] is defined
\* when the node is popped
ScoresDefined == \A e \in queue : e.id \in DOMAIN g_scores

\* one iteration of the loop closes a node, or shortens the queue, or returns
LoopProgress ==
    \/ pc' # "search"
    \/ close_set \subseteq close_set' /\ close_set' # close_set
    \/ Cardinality(queue') < Cardinality(queue) /\ close_set' = close_set

\* C3: if no node of target_nodes can be reached from a node of source_nodes
\* along neighbor edges, find_shortest_path returns None and no path; while it
\* runs, every lookup it makes is defined and every iteration of its loop makes
\* progress towards the return (a node is closed, or the queue shrinks with
\* the closed set unchanged).
C3_UnreachableReturnsNone ==
    /\ [](Returned /\ MinCost = -1 => pc = "none" /\ path = <<>>)
    /\ [](pc = "search" => ScoresDefined)
    /\ [][SearchStep => LoopProgress]_vars

\* C3 witness: the search returned None although a target node is still in the
\* graph with neighbors of its own: the blockages enclose it.
C3_Witness ==
    /\ pc = "none"
    /\ status = "built"
    /\ source_nodes # <<>>
    /\ \E t \in Listed(target_nodes) : InSeq(t, nodes) /\ neighbors[t + 1] # <<>>

\* C4: after create_graph completes, the neighbor relation over the nodes that
\* call created is symmetric.
C4_NeighborsSymmetric ==
    status = "built" =>
        \A a \in LastCallIds, b \in LastCallIds : Edge(a, b) <=> Edge(b, a)

\* C4 witness: create_graph completed, pruning removed a node, and nodes with
\* edges remain.
C4_Witness ==
    /\ status = "built"
    /\ LastCallIds \ Listed(nodes) # {}
    /\ \E a \in Listed(nodes), b \in Listed(nodes) :
          Edge(a, b) /\ center[a + 1][3] = center[b + 1][3]

\* C5: after create_graph completes, no node of self.nodes has its center
\* inside a collected blockage on the blockage's layer, and every neighbor of a
\* node of self.nodes is itself in self.nodes.
C5_NoBlockedNodeRemains ==
    status = "built" =>
        \A n \in Listed(nodes) :
            /\ \A blockage \in graph_blockages :
                  ~(center[n + 1][3] = blockage.z
                    /\ blockage.llx <= center[n + 1][1] /\ center[n + 1][1] <= blockage.urx
                    /\ blockage.lly <= center[n + 1][2] /\ center[n + 1][2] <= blockage.ury)
            /\ \A m \in Listed(neighbors[n + 1]) : m \in Listed(nodes)

\* C5 witness: create_graph completed after generating a node inside a
\* blockage whose via neighbor on the other layer stays in the graph.
C5_Witness ==
    /\ status = "built"
    /\ \E a \in LastCallIds, b \in Listed(nodes) :
          /\ center[a + 1][1] = center[b + 1][1]
          /\ center[a + 1][2] = center[b + 1][2]
          /\ \E blockage \in graph_blockages : inside_shape(center[a + 1], blockage)

\* The premise of C6 (pruning removes every node): after create_graph completes
\* self.nodes is never empty, since the least x value lies left of every
\* collected blockage.
SomeNodeSurvives == status = "built" => nodes # <<>>

\* the scenario of C7 on a new hanan_graph object
WallScenario ==
    /\ calls = 1
    /\ status = "built"
    /\ source = PinA
    /\ target = PinB
    /\ router.blockages = {Wall(0), Wall(1)}

\* C7 as claimed: with the wall on both layers between the two pins,
\* find_shortest_path returns None.
C7_WallReturnsNone == WallScenario /\ Returned => pc = "none"

\* C7 as amended: with the wall on both layers between the two pins,
\* find_shortest_path returns a path between the centers of the two pins that
\* passes beyond an end of the wall.
C7_WallIsBypassed ==
    WallScenario /\ Returned =>
        /\ pc = "found"
        /\ FollowsEdges(path)
        /\ center[path[Len(path)] + 1] = <<cx(PinA), cy(PinA), PinA.z>>
        /\ center[path[1] + 1] = <<cx(PinB), cy(PinB), PinB.z>>
        /\ \E i \in 1..Len(path) :
              \/ center[path[i] + 1][2] < Wall(0).lly
              \/ center[path[i] + 1][2] > Wall(0).ury

\* C7 witness: the search returned a path in the scenario.
C7_Witness == WallScenario /\ pc = "found" /\ Len(path) > 2

\* C8 as claimed: among the queued entries with the same f score as the popped
\* one, the popped entry is the one pushed first.
C8_TiesPopInPushOrder ==
    [][SearchStep =>
          \A o \in queue : Same(o.f, popped'.f) => popped'.seq <= o.seq]_vars

\* C8 as amended: the popped entry has the least f score of the queue, and
\* among the queued entries with that f score it has the least node id.
C8_TiesPopInIdOrder ==
    [][SearchStep =>
          /\ popped' \in queue
          /\ \A o \in queue :
                /\ ~Less(o.f, popped'.f)
                /\ (Same(o.f, popped'.f) => popped'.id <= o.id)]_vars

\* C8 witness: an entry with a finite f score was popped while an entry with
\* the same f score that was pushed before it is still queued.
C8_Witness ==
    /\ pc = "search"
    /\ ~IsInf(popped.f)
    /\ \E o \in queue :
          Same(o.f, popped.f) /\ o.seq < popped.seq /\ o.id > popped.id

Degenerate(shape) == width(shape) = 0 \/ height(shape) = 0

\* C9: when the source or the target has zero width or zero height,
\* create_graph completes without an exception and leaves the source and
\* target node lists empty.
C9_DegenerateGivesEmptyGraph ==
    calls > 0 /\ (Degenerate(source) \/ Degenerate(target)) =>
        status = "built" /\ source_nodes = <<>> /\ target_nodes = <<>>

\* C10: after create_graph completes, source_nodes and target_nodes hold only
\* nodes that this call created.
C10_OnlyNodesOfLastCall ==
    status = "built" =>
        Listed(source_nodes) \cup Listed(target_nodes) \subseteq LastCallIds

=============================================================================
